---------------------------- MODULE Spec2Model ----------------------------
(***************************************************************************)
(* Model of package s3sigv2 (src/s3sigv2.go): AWS S3 Signature Version 2   *)
(* request signing.                                                        *)
(*                                                                         *)
(* A Go string is a sequence of one-character strings, so that the string  *)
(* functions the code calls (ToLower, TrimSpace, HasPrefix, Count, Split,  *)
(* Replace, Join, sort.Strings) are computed character by character.       *)
(* An http.Header is a function from the stored keys to the list of values *)
(* stored under each key, with Get and Set going through                   *)
(* CanonicalMIMEHeaderKey as net/http does.                                *)
(* HMAC-SHA1 is symbolic: the digest of (key, message) is a term that      *)
(* names both, so two digests are equal exactly when key and message are.  *)
(***************************************************************************)
EXTENDS Integers, Sequences, FiniteSets, TLC

VARIABLES
    req,                \* the *http.Request being signed
    orig,               \* the request as the caller built it (history)
    cred,               \* the S3CredentialPair of the sequential specifications
    now,                \* the wall clock, in ticks
    subresourcesArray,  \* the package-level cache of line 23
    out,                \* what the last call was given and what it returned
    mode,               \* how the two concurrent callers share a pair
    pairs,              \* the S3CredentialPairs of the concurrent callers
    pc,                 \* each concurrent caller's position in SignBytesHmacSHA1
    lock,               \* the callers' external mutex: 0 free, else its holder
    result              \* each concurrent caller's last call: content and digest

vars == <<req, orig, cred, now, subresourcesArray, out, mode, pairs, pc, lock, result>>

---------------------------------------------------------------------------
(* Bounds of the model *)

\* the clock stops after this many ticks
MaxTime == 2

\* a request of the canonicalization inputs stores at most this many headers
MaxHeaders == 2

\* each concurrent caller makes at most this many SignBytesHmacSHA1 calls
MaxCalls == 1

---------------------------------------------------------------------------
(* Go strings *)

Str(s) == [i \in 1..Len(s) |-> SubSeq(s, i, i)]

\* The bytes the model's strings use, in ASCII order.
Ascii == Str("\t\n !&-./0123456789:<=>?ABCDEFGHIJKLMNOPQRSTUVWXYZ_abcdefghijklmnopqrstuvwxyz|")

Upper == Str("ABCDEFGHIJKLMNOPQRSTUVWXYZ")

Lower == Str("abcdefghijklmnopqrstuvwxyz")

Digits == Str("0123456789")

InSeq(c, s) == \E i \in 1..Len(s) : s[i] = c

IndexIn(c, s) == CHOOSE i \in 1..Len(s) : s[i] = c

ByteOf(c) == IndexIn(c, Ascii)

\* Go's string comparison a < b: byte-wise lexicographic.
StringLess(a, b) ==
    \E i \in 1..(Len(a) + 1) :
        /\ i <= Len(b)
        /\ \A j \in 1..(i - 1) : a[j] = b[j]
        /\ (i = Len(a) + 1 \/ ByteOf(a[i]) < ByteOf(b[i]))

ToLowerByte(c) == IF InSeq(c, Upper) THEN Lower[IndexIn(c, Upper)] ELSE c

ToUpperByte(c) == IF InSeq(c, Lower) THEN Upper[IndexIn(c, Lower)] ELSE c

\* strings.ToLower
ToLower(s) == [i \in 1..Len(s) |-> ToLowerByte(s[i])]

IsSpace(c) == c \in {" ", "\t", "\n"}

\* strings.TrimSpace
TrimSpace(s) ==
    LET keep == {i \in 1..Len(s) : ~IsSpace(s[i])}
    IN  IF keep = {} THEN <<>>
        ELSE LET lo == CHOOSE i \in keep : \A j \in keep : i <= j
                 hi == CHOOSE i \in keep : \A j \in keep : j <= i
             IN  SubSeq(s, lo, hi)

\* strings.HasPrefix
HasPrefix(s, prefix) ==
    Len(prefix) <= Len(s) /\ SubSeq(s, 1, Len(prefix)) = prefix

\* strings.Count(s, sep) for a one-byte sep
Count(s, sep) == Cardinality({i \in 1..Len(s) : s[i] = sep})

\* strings.Replace(s, old, new, -1) for one-byte old and new
Replace(s, old, new) == [i \in 1..Len(s) |-> IF s[i] = old THEN new ELSE s[i]]

\* strings.Split(s, sep) for a one-byte sep
RECURSIVE Split(_, _)
Split(s, sep) ==
    IF ~InSeq(sep, s) THEN <<s>>
    ELSE LET i == CHOOSE k \in 1..Len(s) :
                      s[k] = sep /\ \A j \in 1..(k - 1) : s[j] # sep
         IN  <<SubSeq(s, 1, i - 1)>> \o Split(SubSeq(s, i + 1, Len(s)), sep)

\* strings.Join(a, sep)
RECURSIVE Join(_, _)
Join(a, sep) ==
    IF Len(a) = 0 THEN <<>>
    ELSE IF Len(a) = 1 THEN a[1]
    ELSE a[1] \o sep \o Join(Tail(a), sep)

RECURSIVE InsertSorted(_, _)
InsertSorted(x, a) ==
    IF Len(a) = 0 THEN <<x>>
    ELSE IF StringLess(a[1], x) THEN <<a[1]>> \o InsertSorted(x, Tail(a))
    ELSE <<x>> \o a

\* sort.Strings
RECURSIVE SortStrings(_)
SortStrings(a) ==
    IF Len(a) = 0 THEN <<>> ELSE InsertSorted(a[1], SortStrings(Tail(a)))

---------------------------------------------------------------------------
(* net/http Header *)

\* net/textproto validHeaderFieldByte: the token bytes of RFC 7230
ValidHeaderFieldByte(c) ==
    InSeq(c, Upper) \/ InSeq(c, Lower) \/ InSeq(c, Digits) \/ c \in {"!", "&", "-", ".", "_", "|"}

\* net/textproto CanonicalMIMEHeaderKey: a key holding a byte that is no token
\* byte is returned unchanged; otherwise the first letter and each letter after
\* a '-' is upper-cased and every other letter lower-cased.
CanonicalMIMEHeaderKey(s) ==
    IF \E i \in 1..Len(s) : ~ValidHeaderFieldByte(s[i]) THEN s
    ELSE [i \in 1..Len(s) |->
            IF i = 1 \/ s[i - 1] = "-" THEN ToUpperByte(s[i]) ELSE ToLowerByte(s[i])]

\* http.Header.Get: the first value stored under the canonical form of key
HeaderGet(h, key) ==
    LET k == CanonicalMIMEHeaderKey(key)
    IN  IF k \in DOMAIN h /\ Len(h[k]) > 0 THEN h[k][1] ELSE <<>>

\* http.Header.Set: the canonical form of key now holds the one value
HeaderSet(h, key, value) ==
    LET k == CanonicalMIMEHeaderKey(key)
    IN  [x \in (DOMAIN h) \cup {k} |-> IF x = k THEN <<value>> ELSE h[x]]

\* `for header := range req.Header`: the stored keys in some order (Go leaves
\* the order open; the only use sorts the list it collects)
RECURSIVE RangeKeys(_)
RangeKeys(ks) ==
    IF ks = {} THEN <<>>
    ELSE LET k == CHOOSE x \in ks : TRUE IN <<k>> \o RangeKeys(ks \ {k})

---------------------------------------------------------------------------
(* time *)

\* the clock's ticks per second: time.Now() is finer than the Date format
TicksPerSecond == 2

TwoDigits(n) == <<Digits[(n \div 10) + 1], Digits[(n % 10) + 1]>>

\* time.Time.Format(s3TimeFormat), s3TimeFormat = time.RFC1123Z: whole
\* seconds, numeric zone. Tick 0 is Tue, 27 Mar 2007 19:36:40 UTC.
FormatTime(t) ==
    Str("Tue, 27 Mar 2007 19:36:") \o TwoDigits(40 + (t \div TicksPerSecond)) \o Str(" +0000")

---------------------------------------------------------------------------
(* crypto/hmac over crypto/sha1 *)

\* HMAC-SHA1(key, message), symbolic
HMACSHA1(key, message) == Str("<hmac-sha1:") \o key \o Str("|") \o message \o Str(">")

\* the nil hash.Hash of a pair that has not signed yet
NilHash == [alloc |-> FALSE, key |-> <<>>, buf |-> <<>>]

\* hmac.New(sha1.New, key)
HmacNew(key) == [alloc |-> TRUE, key |-> key, buf |-> <<>>]

\* hash.Hash.Write
HashWrite(h, content) == [h EXCEPT !.buf = @ \o content]

\* hash.Hash.Sum(nil): the digest of what was written, the state unchanged
HashSum(h) == HMACSHA1(h.key, h.buf)

HashResetKeepsBuffer(h) == h

\* hash.Hash.Reset: back to the keyed, empty state
HashReset(h) == [h EXCEPT !.buf = <<>>]

---------------------------------------------------------------------------
(* package s3sigv2 *)

s3SubresourcesWithUpload == Str("acl,lifecycle,location,logging,notification,partNumber,policy,requestPayment,torrent,upload,uploadId,uploads,versionId,versioning,versions,website")

\* const s3Subresources
s3Subresources == Str("acl,lifecycle,location,logging,notification,partNumber,policy,requestPayment,torrent,uploadId,uploads,versionId,versioning,versions,website")

\* `if subresourcesArray == nil { subresourcesArray = strings.Split(...) }`:
\* the cache after this statement, given the cache before it
LoadSubresources(arr) == IF arr = <<>> THEN Split(s3Subresources, ",") ELSE arr

prepareRequestKeepsDate(r, token, t) ==
    LET h1 == IF HeaderGet(r.Header, Str("Date")) = <<>>
              THEN HeaderSet(r.Header, Str("Date"), FormatTime(t))
              ELSE r.Header
        h2 == IF Len(token) > 0 /\ Len(token[1]) > 0
              THEN HeaderSet(h1, Str("X-Amz-Security-Token"), token[1])
              ELSE h1
    IN  [r EXCEPT !.Header = h2,
                  !.Path = IF r.Path = <<>> THEN r.Path \o Str("/") ELSE r.Path]

prepareRequestKeepsPath(r, token, t) ==
    LET h1 == HeaderSet(r.Header, Str("Date"), FormatTime(t))
        h2 == IF Len(token) > 0 /\ Len(token[1]) > 0
              THEN HeaderSet(h1, Str("X-Amz-Security-Token"), token[1])
              ELSE h1
    IN  [r EXCEPT !.Header = h2]

\* prepareRequest(req, token...) called at time t; token is the variadic list
prepareRequest(r, token, t) ==
    LET h1 == HeaderSet(r.Header, Str("Date"), FormatTime(t))
        h2 == IF Len(token) > 0 /\ Len(token[1]) > 0
              THEN HeaderSet(h1, Str("X-Amz-Security-Token"), token[1])
              ELSE h1
    IN  [r EXCEPT !.Header = h2,
                  !.Path = IF r.Path = <<>> THEN r.Path \o Str("/") ELSE r.Path]

\* the first loop of canonicalAmzHeaders: the standardized names that start
\* with x-amz, one per stored key, in the order the keys are ranged over
RECURSIVE CollectAmz(_)
CollectAmz(keys) ==
    IF Len(keys) = 0 THEN <<>>
    ELSE LET standardized == ToLower(TrimSpace(keys[1]))
         IN  (IF HasPrefix(standardized, Str("x-amz")) THEN <<standardized>> ELSE <<>>)
             \o CollectAmz(Tail(keys))

canonicalAmzHeaders(r) ==
    LET headers == SortStrings(CollectAmz(RangeKeys(DOMAIN r.Header)))
        lines == [i \in 1..Len(headers) |->
                    headers[i] \o Str(":")
                    \o Replace(HeaderGet(r.Header, headers[i]), "\n", " ")]
    IN  IF Len(lines) > 0 THEN Join(lines, Str("\n")) \o Str("\n") ELSE <<>>

\* the loop over subresourcesArray of canonicalResource
RECURSIVE AppendSubresources(_, _, _)
AppendSubresources(resource, rawQuery, arr) ==
    IF Len(arr) = 0 THEN resource
    ELSE AppendSubresources(
            IF HasPrefix(rawQuery, arr[1]) THEN resource \o Str("?") \o arr[1] ELSE resource,
            rawQuery, Tail(arr))

canonicalResourceAtLeastThreeDots(r, arr) ==
    LET bucket == IF Count(r.Host, ".") >= 3
                  THEN Str("/") \o Split(r.Host, ".")[1]
                  ELSE <<>>
    IN  AppendSubresources(bucket \o r.Path, r.RawQuery, LoadSubresources(arr))

\* canonicalResource(req), reading the cache arr
canonicalResource(r, arr) ==
    LET bucket == IF Count(r.Host, ".") = 3
                  THEN Str("/") \o Split(r.Host, ".")[1]
                  ELSE <<>>
    IN  AppendSubresources(bucket \o r.Path, r.RawQuery, LoadSubresources(arr))

stringToSignBlankLine(r, arr) ==
    r.Method \o Str("\n")
    \o HeaderGet(r.Header, Str("Content-MD5")) \o Str("\n")
    \o HeaderGet(r.Header, Str("Content-Type")) \o Str("\n")
    \o HeaderGet(r.Header, Str("Date")) \o Str("\n")
    \o canonicalAmzHeaders(r) \o Str("\n")
    \o canonicalResource(r, arr)

\* stringToSign(req), reading the cache arr
stringToSign(r, arr) ==
    LET str == r.Method \o Str("\n")
               \o HeaderGet(r.Header, Str("Content-MD5")) \o Str("\n")
               \o HeaderGet(r.Header, Str("Content-Type")) \o Str("\n")
               \o HeaderGet(r.Header, Str("Date")) \o Str("\n")
        canonicalHeaders == canonicalAmzHeaders(r)
    IN  (IF canonicalHeaders # <<>> THEN str \o canonicalHeaders ELSE str)
        \o canonicalResource(r, arr)

\* c.SignBytesHmacSHA1(content): the pair afterwards and the digest returned
SignBytesHmacSHA1(c, content) ==
    LET h0 == IF c.hmacSHA1 = NilHash THEN HmacNew(c.SecretAccessKey) ELSE c.hmacSHA1
        h1 == HashWrite(h0, content)
    IN  [c |-> [c EXCEPT !.hmacSHA1 = HashReset(h1)], hash |-> HashSum(h1)]

\* c.GetSignatureBytes(req) at time t: pair, request and digest afterwards
GetSignatureBytes(c, r, arr, t) ==
    LET r1 == prepareRequest(r, <<>>, t)
        s == SignBytesHmacSHA1(c, stringToSign(r1, arr))
    IN  [c |-> s.c, req |-> r1, ret |-> s.hash, signed |-> stringToSign(r1, arr)]

\* c.SignHTTPRequest(req) at time t: pair and request afterwards
SignHTTPRequest(c, r, arr, t) ==
    LET r1 == prepareRequest(r, <<>>, t)
        s == SignBytesHmacSHA1(c, stringToSign(r1, arr))
        authHeader == Str("AWS:") \o c.AccessKeyID \o Str(":") \o s.hash
    IN  [c |-> s.c,
         req |-> [r1 EXCEPT !.Header = HeaderSet(@, Str("Authorization"), authHeader)],
         ret |-> s.hash, signed |-> stringToSign(r1, arr)]

---------------------------------------------------------------------------
(* Inputs *)

\* an http.Header holding the entries es (records k, v with distinct k)
HeaderOf(es) == [x \in {e.k : e \in es} |-> (CHOOSE e \in es : e.k = x).v]

Entry(k, v) == [k |-> Str(k), v |-> v]

ExampleDate == Str("Tue, 27 Mar 2007 19:36:42 +0000")

\* Headers a caller can have stored: through Header.Set (canonical keys) or by
\* assigning to the map under a key of its own casing and spacing.
HeaderPool ==
    { Entry("X-Amz-Date", <<Str("d1")>>),
      Entry("X-Amz-Acl", <<Str("public-read")>>),
      Entry("x-amz-meta-a", <<Str("1")>>),
      Entry("X-AMZ-META-A", <<Str("2")>>),
      Entry("X-Amz-Meta-Nl", <<Str("a\nb")>>),
      Entry("X-Amz-Multi", <<Str("v1"), Str("v2")>>),
      Entry("X-Amzn-Trace", <<Str("t")>>),
      Entry("X-Am-Short", <<Str("n")>>),
      Entry("Content-Type", <<Str("text/plain")>>),
      Entry("Content-Md5", <<Str("md5")>>),
      Entry("Date", <<ExampleDate>>) }

CanonHeaders ==
    {HeaderOf(es) : es \in {x \in SUBSET HeaderPool : Cardinality(x) <= MaxHeaders}}

Hosts ==
    { Str("examplebucket.s3.amazonaws.com"), Str("mybucket.s3.amazonaws.com"),
      Str("s3.amazonaws.com"), Str("b.s3.eu.amazonaws.com"), Str("localhost") }

Paths == { <<>>, Str("/"), Str("/photo.jpg") }

Queries ==
    { <<>>, Str("acl&foo=bar"), Str("uploads"), Str("uploadId=7"), Str("upload"),
      Str("versionId=3"), Str("versioning"), Str("versions"), Str("version"),
      Str("foo=bar&acl"), Str("partNumber=1&uploadId=7"), Str("policy"),
      Str("location"), Str("logging"), Str("lifecycle"), Str("website"),
      Str("torrent"), Str("notification"), Str("requestPayment"), Str("aclx") }

Request(m, h, p, q, hd) ==
    [Method |-> m, Host |-> h, Path |-> p, RawQuery |-> q, Header |-> hd]

\* the canonicalization inputs: every stored-header collection with a few
\* URLs, and every URL with a few header collections
FewUrls ==
    { <<Str("examplebucket.s3.amazonaws.com"), Str("/photo.jpg"), <<>> >>,
      <<Str("s3.amazonaws.com"), <<>>, Str("acl&foo=bar")>>,
      <<Str("localhost"), Str("/"), Str("foo=bar&acl")>> }

FewHeaders ==
    { HeaderOf({}),
      HeaderOf({Entry("Date", <<ExampleDate>>)}),
      HeaderOf({Entry("Date", <<ExampleDate>>), Entry("X-Amz-Date", <<Str("d1")>>)}) }

CanonRequests ==
    {Request(Str("GET"), u[1], u[2], u[3], hd) : u \in FewUrls, hd \in CanonHeaders}
    \cup {Request(Str("GET"), h, p, q, hd) : h \in Hosts, p \in Paths, q \in Queries, hd \in FewHeaders}

PresetDate == Str("Mon, 01 Jan 2001 00:00:00 +0000")

\* the requests the signing calls are made on
SignRequests ==
    { Request(Str("PUT"), Str("examplebucket.s3.amazonaws.com"), Str("/photo.jpg"), <<>>,
              HeaderOf({})),
      Request(Str("PUT"), Str("s3.amazonaws.com"), <<>>, <<>>,
              HeaderOf({Entry("Date", <<PresetDate>>)})),
      Request(Str("PUT"), Str("s3.amazonaws.com"), <<>>, Str("acl"),
              HeaderOf({Entry("X-Amz-Date", <<Str("d1")>>), Entry("Content-Type", <<Str("text/plain")>>)})),
      Request(Str("PUT"), Str("examplebucket.s3.amazonaws.com"), <<>>, <<>>,
              HeaderOf({Entry("X-Amz-Security-Token", <<Str("stale")>>), Entry("X-Amz-Acl", <<Str("private")>>)})),
      Request(Str("PUT"), Str("s3.amazonaws.com"), Str("/photo.jpg"), Str("uploads"),
              HeaderOf({Entry("Date", <<PresetDate>>), Entry("X-Amz-Security-Token", <<Str("tok")>>)})) }

Keys == { Str("k1"), Str("k2") }

Tokens == { <<>>, Str("tok") }

Contents == { Str("a"), Str("b") }

Pair(key, token) ==
    [AccessKeyID |-> Str("AKID"), SecretAccessKey |-> key, SecurityToken |-> token,
     hmacSHA1 |-> NilHash]

NoCall == [op |-> "none", at |-> 0, key |-> <<>>, content |-> <<>>, ret |-> <<>>]

Idle ==
    /\ mode = "none"
    /\ pairs = <<>>
    /\ pc = <<>>
    /\ lock = 0
    /\ result = <<>>

concVars == <<mode, pairs, pc, lock, result>>

---------------------------------------------------------------------------
(* The signing calls, one after the other, on one request and one pair *)

Init ==
    /\ req \in SignRequests
    /\ orig = req
    /\ cred \in {Pair(Str("k1"), tk) : tk \in Tokens}
    /\ now = 0
    /\ subresourcesArray = <<>>
    /\ out = NoCall
    /\ Idle

\* time passes between calls
Tick ==
    /\ now < MaxTime
    /\ now' = now + 1
    /\ UNCHANGED <<req, orig, cred, subresourcesArray, out, concVars>>

\* the caller assigns the exported field SecretAccessKey
AssignSecretAccessKey ==
    \E k \in Keys :
        /\ k # cred.SecretAccessKey
        /\ cred' = [cred EXCEPT !.SecretAccessKey = k]
        /\ UNCHANGED <<req, orig, now, subresourcesArray, out, concVars>>

DoSignBytesHmacSHA1 ==
    \E content \in Contents :
        LET s == SignBytesHmacSHA1(cred, content)
        IN  /\ cred' = s.c
            /\ out' = [op |-> "SignBytesHmacSHA1", at |-> now, key |-> cred.SecretAccessKey,
                       content |-> content, ret |-> s.hash]
            /\ UNCHANGED <<req, orig, now, subresourcesArray, concVars>>

DoGetSignatureBytes ==
    LET s == GetSignatureBytes(cred, req, subresourcesArray, now)
    IN  /\ cred' = s.c
        /\ req' = s.req
        /\ subresourcesArray' = LoadSubresources(subresourcesArray)
        /\ out' = [op |-> "GetSignatureBytes", at |-> now, key |-> cred.SecretAccessKey,
                   content |-> s.signed, ret |-> s.ret]
        /\ UNCHANGED <<orig, now, concVars>>

DoSignHTTPRequest ==
    LET s == SignHTTPRequest(cred, req, subresourcesArray, now)
    IN  /\ cred' = s.c
        /\ req' = s.req
        /\ subresourcesArray' = LoadSubresources(subresourcesArray)
        /\ out' = [op |-> "SignHTTPRequest", at |-> now, key |-> cred.SecretAccessKey,
                   content |-> s.signed, ret |-> s.ret]
        /\ UNCHANGED <<orig, now, concVars>>

Next ==
    \/ Tick
    \/ AssignSecretAccessKey
    \/ DoSignBytesHmacSHA1
    \/ DoGetSignatureBytes
    \/ DoSignHTTPRequest

Spec == Init /\ [][Next]_vars

---------------------------------------------------------------------------
(* The canonicalization functions, applied to a request as the caller built it *)

InitCanon ==
    /\ req \in CanonRequests
    /\ orig = req
    /\ cred = Pair(Str("k1"), <<>>)
    /\ now = 0
    /\ subresourcesArray = <<>>
    /\ out = NoCall
    /\ Idle

DoStringToSign ==
    /\ out' = [NoCall EXCEPT !.op = "stringToSign", !.ret = stringToSign(req, subresourcesArray)]
    /\ subresourcesArray' = LoadSubresources(subresourcesArray)
    /\ UNCHANGED <<req, orig, cred, now, concVars>>

DoCanonicalAmzHeaders ==
    /\ out' = [NoCall EXCEPT !.op = "canonicalAmzHeaders", !.ret = canonicalAmzHeaders(req)]
    /\ UNCHANGED <<req, orig, cred, now, subresourcesArray, concVars>>

DoCanonicalResource ==
    /\ out' = [NoCall EXCEPT !.op = "canonicalResource", !.ret = canonicalResource(req, subresourcesArray)]
    /\ subresourcesArray' = LoadSubresources(subresourcesArray)
    /\ UNCHANGED <<req, orig, cred, now, concVars>>

NextCanon ==
    \/ DoStringToSign
    \/ DoCanonicalAmzHeaders
    \/ DoCanonicalResource

SpecCanon == InitCanon /\ [][NextCanon]_vars

---------------------------------------------------------------------------
(* Properties of the signing calls *)

SigningOps == {"SignHTTPRequest", "GetSignatureBytes"}

Contains(s, sub) ==
    \E i \in 1..(Len(s) - Len(sub) + 1) : SubSeq(s, i, i + Len(sub) - 1) = sub

HasSuffix(s, suffix) ==
    Len(suffix) <= Len(s) /\ SubSeq(s, Len(s) - Len(suffix) + 1, Len(s)) = suffix

\* the lines of a signed string
Lines(s) == Split(s, "\n")

\* C1: after a signing call by a pair whose SecurityToken is not empty, the
\* request's X-Amz-Security-Token header is exactly that token, and the line
\* x-amz-security-token:<token> is one of the amz-header lines of the string
\* that was signed.
C1_TokenPropagated ==
    (out.op \in SigningOps /\ cred.SecurityToken # <<>>) =>
        /\ Str("X-Amz-Security-Token") \in DOMAIN req.Header
        /\ req.Header[Str("X-Amz-Security-Token")] = <<cred.SecurityToken>>
        /\ Contains(out.content,
                    Str("\nx-amz-security-token:") \o cred.SecurityToken \o Str("\n"))

\* C2: every SignBytesHmacSHA1 call returns HMAC-SHA1 of its content under
\* the SecretAccessKey the pair holds at the time of the call.
C2_DigestUnderCurrentKey ==
    out.op = "SignBytesHmacSHA1" => out.ret = HMACSHA1(out.key, out.content)

\* C3: after SignHTTPRequest the Authorization header is AWS:<AccessKeyID>:<sig>
\* with sig the HMAC-SHA1, under the pair's secret key, of stringToSign of the
\* prepared request; GetSignatureBytes returns exactly that digest.
C3_AuthorizationHeader ==
    LET sig == HMACSHA1(out.key, stringToSign(req, subresourcesArray))
    IN  /\ out.op = "SignHTTPRequest" =>
              /\ Str("Authorization") \in DOMAIN req.Header
              /\ req.Header[Str("Authorization")]
                    = <<Str("AWS:") \o cred.AccessKeyID \o Str(":") \o sig>>
        /\ out.op = "GetSignatureBytes" => out.ret = sig

C6_PathNormalized ==
    out.op \in SigningOps =>
        /\ req.Path = (IF orig.Path = <<>> THEN Str("/") ELSE orig.Path)
        /\ req.Path # <<>>
        /\ canonicalResource(req, subresourcesArray) # <<>>
        /\ HasSuffix(out.content, canonicalResource(req, subresourcesArray))
        /\ Lines(out.content)[Len(Lines(out.content))] # <<>>

\* C6's case: the caller's path was empty, and neither a bucket nor a
\* subresource adds anything to the canonical resource.
C6_Witness ==
    /\ out.op \in SigningOps
    /\ orig.Path = <<>>
    /\ Count(orig.Host, ".") # 3
    /\ orig.RawQuery = <<>>
    /\ req.Path = Str("/")

---------------------------------------------------------------------------
(* Properties of the canonicalization functions *)

\* the value stored under exactly the key k, empty when there is none
Stored(h, k) == IF Str(k) \in DOMAIN h THEN h[Str(k)][1] ELSE <<>>

\* the stored keys whose lowercased, trimmed name starts with x-amz
AmzKeys(h) == {k \in DOMAIN h : HasPrefix(ToLower(TrimSpace(k)), Str("x-amz"))}

ExampleRequest ==
    Request(Str("GET"), Str("examplebucket.s3.amazonaws.com"), Str("/photo.jpg"), <<>>,
            HeaderOf({Entry("Date", <<ExampleDate>>)}))

\* C5: stringToSign is method, Content-MD5, Content-Type and Date, each
\* followed by a newline, then the amz-headers block, then the canonical
\* resource and nothing after it; without x-amz headers the resource follows
\* the Date line directly; the documented example gives the documented string.
C5_StringToSign ==
    out.op = "stringToSign" =>
        LET h == req.Header
            head == req.Method \o <<"\n">> \o Stored(h, "Content-Md5") \o <<"\n">>
                    \o Stored(h, "Content-Type") \o <<"\n">> \o Stored(h, "Date") \o <<"\n">>
            res == canonicalResource(req, subresourcesArray)
        IN  /\ out.ret = head \o canonicalAmzHeaders(req) \o res
            /\ AmzKeys(h) = {} => out.ret = head \o res
            /\ AmzKeys(h) # {} => Len(out.ret) > Len(head) + Len(res)
            /\ req = ExampleRequest =>
                  out.ret = Str("GET\n\n\nTue, 27 Mar 2007 19:36:42 +0000\n/examplebucket/photo.jpg")

\* C5's case: stringToSign applied to the documented example
C5_Witness == out.op = "stringToSign" /\ req = ExampleRequest

\* C5's other case: a request that stores x-amz headers and content headers
C5_WitnessAmz ==
    /\ out.op = "stringToSign"
    /\ AmzKeys(req.Header) # {}
    /\ Str("Content-Type") \in DOMAIN req.Header

\* the orderings of the stored x-amz keys by lowercased, trimmed name
AmzOrders(h) ==
    LET ks == AmzKeys(h)
        n == Cardinality(ks)
    IN  {f \in [1..n -> ks] :
            /\ \A i, j \in 1..n : i # j => f[i] # f[j]
            /\ \A i \in 1..(n - 1) :
                  ~StringLess(ToLower(TrimSpace(f[i + 1])), ToLower(TrimSpace(f[i])))}

RECURSIVE AmzLines(_, _)
AmzLines(h, f) ==
    IF Len(f) = 0 THEN <<>>
    ELSE ToLower(TrimSpace(f[1])) \o <<":">> \o Replace(h[f[1]][1], "\n", " ") \o <<"\n">>
         \o AmzLines(h, Tail(f))

\* C7: whatever the casing of the stored names, the amz-headers block is one
\* line per stored x-amz header, lower(name):value of that header with its
\* newlines turned into spaces, ordered by lowercased name, each line ended by
\* a newline (so the block is empty when no header is selected).
C7_AmzBlockPerStoredHeader ==
    out.op = "canonicalAmzHeaders" =>
        \E f \in AmzOrders(req.Header) : out.ret = AmzLines(req.Header, f)

\* the subresource names of the S3 documentation, in the order of the list
RecognizedNames ==
    << Str("acl"), Str("lifecycle"), Str("location"), Str("logging"), Str("notification"),
       Str("partNumber"), Str("policy"), Str("requestPayment"), Str("torrent"),
       Str("uploadId"), Str("uploads"), Str("versionId"), Str("versioning"),
       Str("versions"), Str("website") >>

RECURSIVE Segments(_, _)
Segments(names, q) ==
    IF Len(names) = 0 THEN <<>>
    ELSE (IF HasPrefix(q, names[1]) THEN <<"?">> \o names[1] ELSE <<>>)
         \o Segments(Tail(names), q)

\* the part of s before its first '.'
FirstLabel(s) ==
    LET dots == {i \in 1..Len(s) : s[i] = "."}
    IN  SubSeq(s, 1, (CHOOSE i \in dots : \A j \in dots : i <= j) - 1)

\* C8: canonicalResource is ('/' + first label of the host, exactly when the
\* host has three dots) + the path as it is + '?name' for each recognized
\* name the raw query starts with, in list order; with the documented cases.
C8_CanonicalResource ==
    out.op = "canonicalResource" =>
        LET bucket == IF Count(req.Host, ".") = 3
                      THEN <<"/">> \o FirstLabel(req.Host) ELSE <<>>
        IN  /\ out.ret = bucket \o req.Path \o Segments(RecognizedNames, req.RawQuery)
            /\ req.Host = Str("mybucket.s3.amazonaws.com") =>
                  HasPrefix(out.ret, Str("/mybucket") \o req.Path)
            /\ req.Host = Str("s3.amazonaws.com") =>
                  /\ HasPrefix(out.ret, req.Path)
                  /\ ~Contains(out.ret, Str("s3"))
            /\ req.RawQuery = Str("acl&foo=bar") => HasSuffix(out.ret, req.Path \o Str("?acl"))
            /\ req.RawQuery = Str("uploads") => HasSuffix(out.ret, req.Path \o Str("?uploads"))
            /\ (\A i \in 1..Len(RecognizedNames) : ~HasPrefix(req.RawQuery, RecognizedNames[i]))
                  => ~InSeq("?", out.ret)

\* C8's case: a virtual-hosted bucket and a query that starts with acl
C8_Witness ==
    /\ out.op = "canonicalResource"
    /\ req.Host = Str("mybucket.s3.amazonaws.com")
    /\ req.RawQuery = Str("acl&foo=bar")
    /\ out.ret = Str("/mybucket/photo.jpg?acl")

\* C10: no name of the subresource list is a prefix of another, so a raw
\* query starts with at most one of them and canonicalResource appends at
\* most one '?name' segment.
C10_AtMostOneSegment ==
    LET names == LoadSubresources(subresourcesArray)
    IN  /\ \A i, j \in 1..Len(names) : i # j => ~HasPrefix(names[j], names[i])
        /\ Cardinality({i \in 1..Len(names) : HasPrefix(req.RawQuery, names[i])}) <= 1
        /\ out.op = "canonicalResource" => Count(out.ret, "?") <= 1

\* C10's case: a query that starts with uploads, a name that shares a stem
\* with uploadId, has had its one segment appended
C10_Witness ==
    /\ out.op = "canonicalResource"
    /\ req.RawQuery = Str("uploads")
    /\ HasSuffix(out.ret, Str("?uploads"))
    /\ Count(out.ret, "?") = 1

---------------------------------------------------------------------------
(* Two goroutines calling SignBytesHmacSHA1, statement by statement *)

Procs == {1, 2}

\* "shared": both callers use pair 1 with no synchronization; "mutex": both
\* use pair 1 and hold the caller's mutex for the whole call; "own": caller
\* p uses pair p.
Modes == {"shared", "mutex", "own"}

PairOf(p) == IF mode = "own" THEN p ELSE 1

\* the caller is between the first and the last statement of a call
Active(p) == pc[p].at # "idle"

\* another caller is inside a call on the same pair without a lock: the
\* accesses to the pair's hash race
Racing(p) ==
    mode = "shared" /\ \E q \in Procs \ {p} : Active(q) /\ PairOf(q) = PairOf(p)

\* what Sum can return when the accesses race and the hash state is torn
Torn == Str("<torn>")

IdleCaller == [at |-> "idle", content |-> <<>>, hash |-> <<>>, calls |-> 0]

NoResult == [done |-> FALSE, content |-> <<>>, ret |-> <<>>]

\* a pair as earlier, sequential use can have left it
UsedPairs ==
    {[Pair(Str("k1"), <<>>) EXCEPT !.hmacSHA1 = h] :
        h \in {NilHash} \cup {HmacNew(k) : k \in Keys}}

InitConc ==
    /\ req = ExampleRequest
    /\ orig = req
    /\ cred = Pair(Str("k1"), <<>>)
    /\ now = 0
    /\ subresourcesArray = <<>>
    /\ out = NoCall
    /\ mode \in Modes
    /\ pairs \in [Procs -> UsedPairs]
    /\ pc = [p \in Procs |-> IdleCaller]
    /\ lock = 0
    /\ result = [p \in Procs |-> NoResult]

seqVars == <<req, orig, cred, now, subresourcesArray, out, mode>>

\* the call of c.SignBytesHmacSHA1(content); under "mutex" the caller first
\* takes the lock
Call(p) ==
    /\ pc[p].at = "idle"
    /\ pc[p].calls < MaxCalls
    /\ IF mode = "mutex" THEN lock = 0 /\ lock' = p ELSE UNCHANGED lock
    /\ \E content \in Contents :
          pc' = [pc EXCEPT ![p].at = "check", ![p].content = content, ![p].hash = <<>>]
    /\ UNCHANGED <<seqVars, pairs, result>>

\* line 64: if c.hmacSHA1 == nil
CheckNil(p) ==
    /\ pc[p].at = "check"
    /\ pc' = [pc EXCEPT ![p].at =
                IF pairs[PairOf(p)].hmacSHA1 = NilHash THEN "create" ELSE "write"]
    /\ UNCHANGED <<seqVars, pairs, lock, result>>

\* line 65: c.hmacSHA1 = hmac.New(sha1.New, []byte(c.SecretAccessKey))
Create(p) ==
    /\ pc[p].at = "create"
    /\ pairs' = [pairs EXCEPT ![PairOf(p)].hmacSHA1 = HmacNew(pairs[PairOf(p)].SecretAccessKey)]
    /\ pc' = [pc EXCEPT ![p].at = "write"]
    /\ UNCHANGED <<seqVars, lock, result>>

\* line 67: c.hmacSHA1.Write(content)
Write(p) ==
    /\ pc[p].at = "write"
    /\ pairs' = [pairs EXCEPT ![PairOf(p)].hmacSHA1 = HashWrite(@, pc[p].content)]
    /\ pc' = [pc EXCEPT ![p].at = "sum"]
    /\ UNCHANGED <<seqVars, lock, result>>

\* line 68: hash := c.hmacSHA1.Sum(nil)
Sum(p) ==
    /\ pc[p].at = "sum"
    /\ \E h \in {HashSum(pairs[PairOf(p)].hmacSHA1)} \cup (IF Racing(p) THEN {Torn} ELSE {}) :
          pc' = [pc EXCEPT ![p].at = "reset", ![p].hash = h]
    /\ UNCHANGED <<seqVars, pairs, lock, result>>

\* line 69: c.hmacSHA1.Reset()
Reset(p) ==
    /\ pc[p].at = "reset"
    /\ pairs' = [pairs EXCEPT ![PairOf(p)].hmacSHA1 = HashReset(@)]
    /\ pc' = [pc EXCEPT ![p].at = "return"]
    /\ UNCHANGED <<seqVars, lock, result>>

\* line 70: return hash; under "mutex" the caller then releases the lock
Return(p) ==
    /\ pc[p].at = "return"
    /\ result' = [result EXCEPT ![p] =
                    [done |-> TRUE, content |-> pc[p].content, ret |-> pc[p].hash]]
    /\ pc' = [pc EXCEPT ![p].at = "idle", ![p].calls = @ + 1]
    /\ lock' = IF mode = "mutex" THEN 0 ELSE lock
    /\ UNCHANGED <<seqVars, pairs>>

NextConc ==
    \E p \in Procs :
        \/ Call(p)
        \/ CheckNil(p)
        \/ Create(p)
        \/ Write(p)
        \/ Sum(p)
        \/ Reset(p)
        \/ Return(p)

SpecConc == InitConc /\ [][NextConc]_vars

\* the digest is that of the call's own content alone, under a key of the pair
OwnDigest(r) == \E k \in Keys : r.ret = HMACSHA1(k, r.content)

\* C9: when the callers serialize their calls on a shared pair, or each uses
\* its own pair, every call returns the digest of its own content (and
\* without either, some interleaving returns something else: C9_Witness).
C9_SafeWhenSerializedOrOwnPair ==
    mode \in {"mutex", "own"} =>
        \A p \in Procs : result[p].done => OwnDigest(result[p])

\* C9's case: on a shared, unsynchronized pair a call has returned a digest,
\* computed by Sum, that is not the digest of its own content
C9_Witness ==
    /\ mode = "shared"
    /\ \E p \in Procs :
          /\ result[p].done
          /\ result[p].ret # Torn
          /\ ~OwnDigest(result[p])

\* C9's other case: both callers have returned under the mutex
C9_WitnessMutex ==
    mode = "mutex" /\ \A p \in Procs : result[p].done

===========================================================================
